---- MODULE Spec2Model ----
(***************************************************************************)
(* A model of utils.py: the activation lookups, the gzip/numpy save-load   *)
(* pair, prepare_device, the Accuracy accumulator and dict_to_md.          *)
(*                                                                         *)
(* Python values are modelled as tagged records (PyNone, PyStr, PyInt),    *)
(* text that is searched for characters as a sequence of one-character     *)
(* strings, a fraction a/b as the pair <<a, b>> compared by cross          *)
(* multiplication, and a tensor as a record of its dtype, its shape and    *)
(* its elements in row-major order.                                        *)
(***************************************************************************)
EXTENDS Integers, Sequences, FiniteSets, TLC

VARIABLES
    _type,              \* Accuracy._type, fixed by the constructor
    _num_correct,       \* Accuracy._num_correct
    _num_examples,      \* Accuracy._num_examples
    best_accuracy,      \* Accuracy.best_accuracy, a fraction
    external_best_acc,  \* Accuracy.external_best_acc
    files,              \* the file system: path -> stored bytes
    ret,                \* the last call: its arguments (of a tensor its shape) and outcome
    log,                \* history: the reset() and update() calls so far
    returned,           \* history: the values compute() has returned
    saved,              \* history: filename -> the array last saved under it
    expected            \* history: the examples of the last update()'s batch

vars == <<_type, _num_correct, _num_examples, best_accuracy, external_best_acc,
          files, ret, log, returned, saved, expected>>

accVars == <<_type, _num_correct, _num_examples, best_accuracy,
             external_best_acc, log, returned, expected>>

(***************************************************************************)
(* Python values and outcomes of a call                                    *)
(***************************************************************************)
PyNone == [kind |-> "None"]
PyStr(s) == [kind |-> "str", s |-> s]
PyInt(i) == [kind |-> "int", i |-> i]
\* a function or module object, by its name
PyObj(name) == [kind |-> "object", name |-> name]

\* the call returned value v
Returns(op, args, v) == [op |-> op, args |-> args, raised |-> "", value |-> v]
\* the call raised exception exc
Raises(op, args, exc) == [op |-> op, args |-> args, raised |-> exc, value |-> PyNone]

NoCall == [op |-> "", args |-> <<>>, raised |-> "", value |-> PyNone]

(***************************************************************************)
(* get_act_function, get_act_function_module                               *)
(***************************************************************************)
\* descr == "relu" in Python: a str equal to the literal
IsStr(descr, lit) == descr.kind = "str" /\ descr.s = lit

get_act_function_swapped(descr) ==
    IF IsStr(descr, "relu") THEN Returns("get_act_function", <<descr>>, PyObj("F.relu"))
    ELSE IF IsStr(descr, "sigm") THEN Returns("get_act_function", <<descr>>, PyObj("F.tanh"))
    ELSE IF IsStr(descr, "tanh") THEN Returns("get_act_function", <<descr>>, PyObj("F.sigmoid"))
    ELSE IF IsStr(descr, "leaky") THEN Returns("get_act_function", <<descr>>, PyObj("F.leaky_relu"))
    ELSE Raises("get_act_function", <<descr>>, "NotImplementedError")

get_act_function(descr) ==
    IF IsStr(descr, "relu") THEN Returns("get_act_function", <<descr>>, PyObj("F.relu"))
    ELSE IF IsStr(descr, "sigm") THEN Returns("get_act_function", <<descr>>, PyObj("F.sigmoid"))
    ELSE IF IsStr(descr, "tanh") THEN Returns("get_act_function", <<descr>>, PyObj("F.tanh"))
    ELSE IF IsStr(descr, "leaky") THEN Returns("get_act_function", <<descr>>, PyObj("F.leaky_relu"))
    ELSE Raises("get_act_function", <<descr>>, "NotImplementedError")

get_act_function_module(descr) ==
    IF IsStr(descr, "relu") THEN Returns("get_act_function_module", <<descr>>, PyObj("nn.ReLU"))
    ELSE IF IsStr(descr, "sigm") THEN Returns("get_act_function_module", <<descr>>, PyObj("nn.Sigmoid"))
    ELSE IF IsStr(descr, "tanh") THEN Returns("get_act_function_module", <<descr>>, PyObj("nn.Tanh"))
    ELSE IF IsStr(descr, "leaky") THEN Returns("get_act_function_module", <<descr>>, PyObj("nn.LeakyReLU"))
    ELSE Raises("get_act_function_module", <<descr>>, "NotImplementedError")

\* the descriptors tried: the four keys, other casings and spellings, the
\* empty string and None
Descrs ==
    {PyStr(s) : s \in {"relu", "sigm", "tanh", "leaky", "ReLU", "RELU", "Sigm",
                       "sigmoid", "leaky_relu", "Tanh", "relu ", ""}}
    \cup {PyNone}

(***************************************************************************)
(* prepare_device                                                          *)
(***************************************************************************)
MaxGpu == 2

\* 'cuda:{}'.format(gpu_id): the text after the colon is str(gpu_id)
CudaString(gpu_id) ==
    [type |-> "cuda",
     index |-> IF gpu_id.kind = "int" THEN gpu_id ELSE PyStr("None")]

\* torch.device(string): the text after the colon must be a device index
TorchDevice(op, args, s) ==
    IF s.type = "cpu" THEN Returns(op, args, [type |-> "cpu"])
    ELSE IF s.index.kind = "int" /\ s.index.i >= 0
         THEN Returns(op, args, [type |-> "cuda", index |-> s.index.i])
         ELSE Raises(op, args, "RuntimeError")

prepare_device(n_gpu_use, gpu_id, device_count) ==
    LET n_gpu == device_count
        use1 == IF n_gpu_use > 0 /\ n_gpu = 0 THEN 0 ELSE n_gpu_use
        use2 == IF use1 > n_gpu THEN n_gpu ELSE use1
        args == <<n_gpu_use, gpu_id, device_count>>
    IN  TorchDevice("prepare_device", args,
                    IF use2 > 0 THEN CudaString(gpu_id) ELSE [type |-> "cpu"])

GpuIds == {PyNone} \cup {PyInt(i) : i \in 0..MaxGpu}

(***************************************************************************)
(* save_to_npy_gz, load_to_npy_gz                                          *)
(***************************************************************************)
\* np.save(file=f, arr=array): the .npy header (dtype, shape) and the
\* elements; an array of Python objects is written as a pickle
\* (np.save's default allow_pickle=True)
NpSave(array) ==
    [magic |-> "NUMPY", descr |-> array.dtype, shape |-> array.shape,
     pickled |-> (array.dtype = "object"), payload |-> array.data]

\* np.load(f), default allow_pickle=False: a pickled payload is refused
NpLoad(op, args, bytes) ==
    IF bytes.pickled
    THEN Raises(op, args, "ValueError")
    ELSE Returns(op, args, [dtype |-> bytes.descr, shape |-> bytes.shape,
                            data |-> bytes.payload])

\* what gzip.GzipFile(path, "w") holds after the writes and close()
GzipWrite(bytes) == [gzip |-> bytes]
\* what gzip.GzipFile(path, "r") reads
GzipRead(stored) == stored.gzip

\* filename + ".npy.gz"
NpyGzPath(filename) == filename \o ".npy.gz"

Write(fs, path, stored) ==
    [p \in DOMAIN fs \cup {path} |-> IF p = path THEN stored ELSE fs[p]]

save_to_npy_gz(array, filename) ==
    /\ files' = Write(files, NpyGzPath(filename), GzipWrite(NpSave(array)))
    /\ ret' = Returns("save_to_npy_gz", <<array, filename>>, PyNone)
    /\ saved' = Write(saved, filename, array)
    /\ UNCHANGED accVars

load_to_npy_gz(filename) ==
    /\ ret' = IF NpyGzPath(filename) \in DOMAIN files
              THEN NpLoad("load_to_npy_gz", <<filename>>,
                          GzipRead(files[NpyGzPath(filename)]))
              ELSE Raises("load_to_npy_gz", <<filename>>, "FileNotFoundError")
    /\ UNCHANGED <<files, saved>>
    /\ UNCHANGED accVars

Filenames == {"a", "b", "a.npy.gz"}

Arrays ==
    { [dtype |-> "int64", shape |-> <<2>>, data |-> <<1, 2>>],
      [dtype |-> "int64", shape |-> <<0>>, data |-> <<>>],
      [dtype |-> "float64", shape |-> <<1, 2>>, data |-> <<2, 1>>],
      [dtype |-> "object", shape |-> <<1>>, data |-> <<PyNone>>] }

(***************************************************************************)
(* dict_to_md                                                              *)
(***************************************************************************)
ChunkSize == 10
MaxEntries == 21

Digit(i) == CASE i = 0 -> "0" [] i = 1 -> "1" [] i = 2 -> "2" [] i = 3 -> "3"
              [] i = 4 -> "4" [] i = 5 -> "5" [] i = 6 -> "6" [] i = 7 -> "7"
              [] i = 8 -> "8" [] i = 9 -> "9"

RECURSIVE IntText(_)
\* str(k) of a non-negative int, one character per element
IntText(k) == IF k < 10 THEN <<Digit(k)>> ELSE IntText(k \div 10) \o <<Digit(k % 10)>>

\* str(x): of an int its digits, of a str the str itself
Str(x) == IF x.kind = "int" THEN IntText(x.i) ELSE x.s

RECURSIVE Join(_, _)
\* sep.join(parts)
Join(sep, parts) ==
    IF Len(parts) = 0 THEN <<>>
    ELSE IF Len(parts) = 1 THEN parts[1]
    ELSE parts[1] \o sep \o Join(sep, Tail(parts))

RECURSIVE Repeat(_, _)
\* s * k
Repeat(s, k) == IF k <= 0 THEN <<>> ELSE s \o Repeat(s, k - 1)

\* list(islice(it, size)) and the iterator left behind
Islice(it, size) == SubSeq(it, 1, IF size < Len(it) THEN size ELSE Len(it))
Advance(it, size) == SubSeq(it, (IF size < Len(it) THEN size ELSE Len(it)) + 1, Len(it))

RECURSIVE get_chunk_from(_, _, _, _)
\* the chunks yielded for i, i + size, ... < n, reading from iterator it
get_chunk_from(it, i, n, size) ==
    IF i >= n THEN <<>>
    ELSE <<Islice(it, size)>> \o get_chunk_from(Advance(it, size), i + size, n, size)

\* get_chunk(input, size): input is the dict as its items in insertion order
get_chunk(input, size) == get_chunk_from(input, 0, Len(input), size)

RECURSIVE markdownrow(_)
markdownrow(item) ==
    IF Len(item) = 0 THEN <<>>
    ELSE <<"|", " ">> \o Str(item[1][2]) \o <<" ">> \o markdownrow(Tail(item))

markdowntable(item) ==
    LET keys == [i \in 1..Len(item) |-> Str(item[i][1])]
        markdownheader == <<"|", " ">> \o Join(<<" ", "|", " ">>, keys) \o <<" ", "|">>
        markdownheaderseparator ==
            Repeat(<<"|", "-", "-", "-", "-", "-">>, Len(item)) \o <<"|">>
    IN  markdownheader \o <<"\n">> \o markdownheaderseparator \o <<"\n">>
        \o markdownrow(item) \o <<"|">> \o <<"\n">>

dict_to_md(dict_input, vis_size) ==
    LET chunks == get_chunk(dict_input, ChunkSize)
    IN  Returns("dict_to_md", <<dict_input, vis_size>>,
                [j \in 1..Len(chunks) |-> markdowntable(chunks[j])])

\* the dicts tried: n entries with int keys inserted in ascending or in
\* descending order, and text values; pipe = 0: no value holds a '|',
\* pipe = p > 0: the value of the p-th entry does
PlainValue(i) == IF i % 2 = 0 THEN PyStr(<<"x">>) ELSE PyStr(<<"0", ".", "5">>)
PipeValue == PyStr(<<"a", "|", "b">>)
DictOf(n, order, pipe) ==
    [i \in 1..n |-> << PyInt(IF order = "asc" THEN i ELSE n + 1 - i),
                       IF i = pipe THEN PipeValue ELSE PlainValue(i) >>]
Dicts ==
    {DictOf(n, order, pipe) :
        n \in 0..MaxEntries, order \in {"asc", "desc"}, pipe \in {0, 1, ChunkSize + 1}}
VisSizes == {1, 5, 10, 20}

(***************************************************************************)
(* Tensors.  An element is stored as twice its value, so that 0.5 is 1; a  *)
(* "long" tensor holds even numbers only.  A "bool" tensor holds TRUE and  *)
(* FALSE.  An operation that raises yields Error(exc).                     *)
(***************************************************************************)
Error(exc) == [err |-> exc]
IsError(x) == "err" \in DOMAIN x

RECURSIVE Numel(_)
Numel(shape) == IF Len(shape) = 0 THEN 1 ELSE shape[1] * Numel(Tail(shape))

Tensor(dtype, shape, data) == [dtype |-> dtype, shape |-> shape, data |-> data]

\* conversion of a non-negative element to dtype: to long truncates
Cast(v, dtype) == IF dtype = "long" THEN 2 * (v \div 2) ELSE v

\* t.to(other), t.type_as(other)
type_as(t, other) ==
    Tensor(other.dtype, t.shape, [i \in DOMAIN t.data |-> Cast(t.data[i], other.dtype)])

\* t.view(-1)
view_flat(t) == Tensor(t.dtype, <<Numel(t.shape)>>, t.data)

\* t.view_as(p)
view_as(t, p) ==
    IF Numel(t.shape) = Numel(p.shape) THEN Tensor(t.dtype, p.shape, t.data)
    ELSE Error("RuntimeError")

\* a == b for tensors of r x c and r' x c elements (c = 1 for 1-D tensors):
\* a single row is broadcast against the rows of the other
eq_rows(a, b, c) ==
    LET ra == Numel(a.shape) \div c
        rb == Numel(b.shape) \div c
        r == IF ra = 1 THEN rb ELSE ra
        at(t, rt, i) == t.data[IF rt = 1 THEN ((i - 1) % c) + 1 ELSE i]
    IN  IF ra = rb \/ ra = 1 \/ rb = 1
        THEN Tensor("bool", IF Len(a.shape) = 1 THEN <<r>> ELSE <<r, c>>,
                    [i \in 1..(r * c) |-> at(a, ra, i) = at(b, rb, i)])
        ELSE Error("RuntimeError")

\* a.eq(b) for tensors of one shape
eq_same(a, b) == Tensor("bool", a.shape, [i \in DOMAIN a.data |-> a.data[i] = b.data[i]])

\* the sizes of t seen as A x B x C: a 2-D tensor has C = 1
Dim3(t) == <<t.shape[1], t.shape[2], IF Len(t.shape) = 3 THEN t.shape[3] ELSE 1>>
At3(t, a, b, c) == t.data[(a - 1) * Dim3(t)[2] * Dim3(t)[3] + (b - 1) * Dim3(t)[3] + c]

FirstMax(t, a, c) ==
    CHOOSE b \in 1..Dim3(t)[2] :
        /\ \A b2 \in 1..Dim3(t)[2] : At3(t, a, b2, c) <= At3(t, a, b, c)
        /\ \A b2 \in 1..(b - 1) : At3(t, a, b2, c) < At3(t, a, b, c)

\* t.argmax(dim=1, keepdim=True) of a 2-D or 3-D tensor: the index of the
\* first maximal value along dim 1, as a long tensor
argmax_dim1(t) ==
    LET A == Dim3(t)[1]
        B == Dim3(t)[2]
        C == Dim3(t)[3]
    IN  IF B = 0 /\ A * C > 0 THEN Error("IndexError")
        ELSE Tensor("long",
                    IF Len(t.shape) = 3 THEN <<A, 1, C>> ELSE <<A, 1>>,
                    [i \in 1..(A * C) |->
                        2 * (FirstMax(t, ((i - 1) \div C) + 1, ((i - 1) % C) + 1) - 1)])

\* torch.transpose(t, 1, last_dim - 1) for last_dim = 2 or 3
transpose1(t, last_dim) ==
    IF last_dim - 1 >= Len(t.shape) THEN Error("IndexError")
    ELSE IF last_dim = 2 THEN t
    ELSE LET A == t.shape[1]
             B == t.shape[2]
             C == t.shape[3]
         IN  Tensor(t.dtype, <<A, C, B>>,
                    [i \in 1..(A * B * C) |->
                        At3(t, ((i - 1) \div (C * B)) + 1,
                               ((i - 1) % B) + 1,
                               (((i - 1) \div B) % C) + 1)])

\* t.reshape(-1, c)
reshape_rows(t, c) ==
    IF c = 0 \/ Numel(t.shape) % c # 0 THEN Error("RuntimeError")
    ELSE Tensor(t.dtype, <<Numel(t.shape) \div c, c>>, t.data)

\* torch.all(t, dim=-1) of a 2-D bool tensor
all_last(t) ==
    Tensor("bool", <<t.shape[1]>>,
           [r \in 1..t.shape[1] |->
                \A k \in 1..t.shape[2] : t.data[(r - 1) * t.shape[2] + k]])

\* t[idx]: idx None adds a leading dimension of size 1, an index tensor
\* (idx.rows, counted from 0) picks rows of t
index0(t, idx) ==
    IF idx.kind = "None" THEN Tensor(t.dtype, <<1>> \o t.shape, t.data)
    ELSE LET w == Numel(Tail(t.shape))
             k == Len(idx.rows)
         IN  IF \E j \in 1..k : idx.rows[j] >= t.shape[1]
             THEN Error("IndexError")
             ELSE Tensor(t.dtype, <<k>> \o Tail(t.shape),
                         [i \in 1..(k * w) |->
                             t.data[idx.rows[((i - 1) \div w) + 1] * w + ((i - 1) % w) + 1]])

\* torch.sum(correct).item()
sum_item(correct) == Cardinality({i \in DOMAIN correct.data : correct.data[i]})

(***************************************************************************)
(* Accuracy                                                                *)
(***************************************************************************)
MaxCalls == 3

RECURSIVE GCD(_, _)
GCD(a, b) == IF b = 0 THEN a ELSE GCD(b, a % b)

\* the float n / d (d > 0), in lowest terms
PyFloat(n, d) ==
    LET g == GCD(IF n < 0 THEN -n ELSE n, d)
    IN  [kind |-> "float", n |-> n \div g, d |-> d \div g]

\* a < b
Less(a, b) == a.n * b.d < b.n * a.d

\* Accuracy(type=...): __init__, whose Metric.__init__ calls reset()
Types == {PyStr("binary"), PyStr("multiclass"), PyStr("multilabel"),
          PyStr("semisupervised"), PyStr("top5"), PyNone}

\* lines 141-161 of update(): the tensor `correct`, or the exception raised
\* on the way to it
correct_of(type, output, target, idx) ==
    LET y_pred == output
    IN  IF IsStr(type, "binary")
        THEN eq_rows(type_as(view_flat(y_pred), target), view_flat(target), 1)
        ELSE IF IsStr(type, "multiclass")
        THEN IF Len(y_pred.shape) < 2 THEN Error("IndexError")
             ELSE LET pred == argmax_dim1(y_pred)
                  IN  IF IsError(pred) THEN pred
                      ELSE IF IsError(view_as(target, pred)) THEN view_as(target, pred)
                      ELSE eq_same(pred, view_as(target, pred))
        ELSE IF IsStr(type, "multilabel")
        THEN IF Len(y_pred.shape) < 2 THEN Error("IndexError")
             ELSE LET num_classes == y_pred.shape[2]
                      last_dim == Len(y_pred.shape)
                      tp == transpose1(y_pred, last_dim)
                      tt == transpose1(target, last_dim)
                  IN  IF IsError(tt) THEN tt
                      ELSE IF IsError(reshape_rows(tp, num_classes))
                      THEN reshape_rows(tp, num_classes)
                      ELSE IF IsError(reshape_rows(tt, num_classes))
                      THEN reshape_rows(tt, num_classes)
                      ELSE LET p2 == reshape_rows(tp, num_classes)
                               t2 == reshape_rows(tt, num_classes)
                               e == eq_rows(t2, type_as(p2, t2), num_classes)
                           IN  IF IsError(e) THEN e ELSE all_last(e)
        ELSE IF IsStr(type, "semisupervised")
        THEN LET t1 == index0(target, idx)
                 p1 == index0(y_pred, idx)
             IN  IF IsError(t1) THEN t1
                 ELSE IF IsError(p1) THEN p1
                 ELSE IF Len(p1.shape) < 2 THEN Error("IndexError")
                 ELSE LET pred == argmax_dim1(p1)
                      IN  IF IsError(pred) THEN pred
                          ELSE IF IsError(view_as(t1, pred)) THEN view_as(t1, pred)
                          ELSE eq_same(pred, view_as(t1, pred))
        ELSE Error("UnboundLocalError")

\* update() as what it adds to the two counters, the exception it raises
\* ("" for none) and the value it returns
update_effect(type, output, target, batch_compute, idx) ==
    LET correct == correct_of(type, output, target, idx)
    IN  IF IsError(correct)
        THEN [raised |-> correct.err, correct |-> 0, examples |-> 0, value |-> PyNone]
        ELSE IF IsStr(type, "multiclass") /\ batch_compute /\ correct.shape[1] = 0
        THEN \* line 148: batch_accuracy = .../batch_dim
             [raised |-> "ZeroDivisionError", correct |-> 0, examples |-> 0,
              value |-> PyNone]
        ELSE \* lines 165-166, then line 169 reads batch_accuracy, which only
             \* the multiclass branch assigns
             [raised |-> IF batch_compute /\ ~IsStr(type, "multiclass")
                         THEN "UnboundLocalError" ELSE "",
              correct |-> sum_item(correct),
              examples |-> correct.shape[1],
              value |-> IF batch_compute /\ IsStr(type, "multiclass")
                        THEN PyFloat(sum_item(correct), correct.shape[1])
                        ELSE PyNone]

\* the batches tried, per mode.  Labels 0 and 1 are stored as 0 and 2, the
\* score 0.5 as 1.
TensorsOf(dtype, shape, values) ==
    {Tensor(dtype, shape, data) : data \in [1..Numel(shape) -> values]}

NoIdx == PyNone
Rows(r) == [kind |-> "index", rows |-> r]

BinaryBatches ==
    LET preds == TensorsOf("float", <<0>>, {0, 1, 2}) \cup TensorsOf("float", <<1>>, {0, 1, 2})
                 \cup TensorsOf("float", <<2, 1>>, {0, 1, 2})
        targets == TensorsOf("long", <<0>>, {0, 2}) \cup TensorsOf("long", <<1>>, {0, 2})
                   \cup TensorsOf("long", <<2>>, {0, 2})
                   \cup TensorsOf("float", <<1>>, {1})
    IN  {<<o, t, NoIdx>> : o \in preds, t \in targets}

MulticlassBatches ==
    {<<o, t, NoIdx>> : o \in TensorsOf("float", <<0, 2>>, {0, 1}),
                       t \in TensorsOf("long", <<0>>, {0, 2})}
    \cup {<<o, t, NoIdx>> : o \in TensorsOf("float", <<1, 2>>, {0, 1}),
                            t \in TensorsOf("long", <<1>>, {0, 2})
                                  \cup TensorsOf("long", <<2>>, {0})}
    \cup {<<o, t, NoIdx>> : o \in TensorsOf("float", <<2, 2>>, {0, 1}),
                            t \in TensorsOf("long", <<2>>, {0, 2})}
    \cup {<<o, t, NoIdx>> : o \in TensorsOf("float", <<1, 2, 2>>, {0, 1}),
                            t \in TensorsOf("long", <<1, 2>>, {0, 2})}

MultilabelBatches ==
    {<<o, t, NoIdx>> : o \in TensorsOf("float", <<0, 2>>, {0, 1, 2}),
                       t \in TensorsOf("long", <<0, 2>>, {0, 2})}
    \cup {<<o, t, NoIdx>> : o \in TensorsOf("float", <<1, 2>>, {0, 1, 2}),
                            t \in TensorsOf("long", <<1, 2>>, {0, 2})}
    \cup {<<o, t, NoIdx>> : o \in TensorsOf("long", <<1, 2, 2>>, {0, 2}),
                            t \in {Tensor("long", <<1, 2, 2>>, <<0, 2, 2, 0>>),
                                   Tensor("long", <<1, 2, 2>>, <<2, 2, 0, 2>>),
                                   Tensor("long", <<1, 2>>, <<0, 2>>)}}

SemisupervisedBatches ==
    {<<o, t, i>> : o \in TensorsOf("float", <<2, 2>>, {0, 1}),
                   t \in TensorsOf("long", <<2>>, {0, 2}),
                   i \in {NoIdx, Rows(<<>>), Rows(<<1>>), Rows(<<1, 0>>), Rows(<<2>>)}}

Batches(type) ==
    IF IsStr(type, "binary") THEN BinaryBatches
    ELSE IF IsStr(type, "multilabel") THEN MultilabelBatches
    ELSE IF IsStr(type, "semisupervised") THEN SemisupervisedBatches
    ELSE MulticlassBatches

\* history: one entry per reset() and update() call
LogReset == [call |-> "reset", raised |-> "", correct |-> 0, examples |-> 0]
LogUpdate(e) ==
    [call |-> "update", raised |-> e.raised, correct |-> e.correct, examples |-> e.examples]

\* the examples of a batch and the correct ones among them, as the four
\* modes define them; counted is FALSE where they define none
NotCounted == [counted |-> FALSE, examples |-> 0, correct |-> 0]
Counted(examples, correct) ==
    [counted |-> TRUE, examples |-> Cardinality(examples), correct |-> Cardinality(correct)]

\* the class (counted from 0) with the first maximal score at sample n, position l
ClassOf(output, n, l) == FirstMax(output, n, l) - 1
\* the label stored at element i of target
LabelAt(target, i) == target.data[i] \div 2

ExamplesOf(type, output, target, idx) ==
    IF IsStr(type, "binary")
    THEN IF Numel(output.shape) # Numel(target.shape) THEN NotCounted
         ELSE Counted(DOMAIN output.data,
                      {i \in DOMAIN output.data :
                          Cast(output.data[i], target.dtype) = target.data[i]})
    ELSE IF IsStr(type, "multiclass")
    THEN IF Len(output.shape) < 2
            \/ Numel(target.shape) # Dim3(output)[1] * Dim3(output)[3]
         THEN NotCounted
         ELSE LET L == Dim3(output)[3]
              IN  Counted(1..Dim3(output)[1],
                          {n \in 1..Dim3(output)[1] :
                              \A l \in 1..L :
                                  ClassOf(output, n, l) = LabelAt(target, (n - 1) * L + l)})
    ELSE IF IsStr(type, "multilabel")
    THEN IF Len(output.shape) < 2 \/ output.shape # target.shape THEN NotCounted
         ELSE LET pairs == (1..Dim3(output)[1]) \X (1..Dim3(output)[3])
              IN  Counted(pairs,
                          {q \in pairs :
                              \A k \in 1..Dim3(output)[2] :
                                  Cast(At3(output, q[1], k, q[2]), target.dtype)
                                      = At3(target, q[1], k, q[2])})
    ELSE IF IsStr(type, "semisupervised")
    THEN IF idx.kind # "index" \/ \E j \in DOMAIN idx.rows : idx.rows[j] >= output.shape[1]
         THEN NotCounted
         ELSE Counted(DOMAIN idx.rows,
                      {j \in DOMAIN idx.rows :
                          ClassOf(output, idx.rows[j] + 1, 1)
                              = LabelAt(target, idx.rows[j] + 1)})
    ELSE NotCounted

(***************************************************************************)
(* The operations of Accuracy                                              *)
(***************************************************************************)
utilVars == <<files, saved>>

reset_keeps_correct ==
    /\ Len(log) < MaxCalls
    /\ _num_examples' = 0
    /\ ret' = Returns("reset", <<>>, PyNone)
    /\ log' = Append(log, LogReset)
    /\ UNCHANGED <<_type, _num_correct, best_accuracy, external_best_acc, returned, expected>>
    /\ UNCHANGED utilVars

reset ==
    /\ Len(log) < MaxCalls
    /\ _num_correct' = 0
    /\ _num_examples' = 0
    /\ ret' = Returns("reset", <<>>, PyNone)
    /\ log' = Append(log, LogReset)
    /\ UNCHANGED <<_type, best_accuracy, external_best_acc, returned, expected>>
    /\ UNCHANGED utilVars

\* the update() calls tried on an accumulator of each type: every batch of
\* the type with batch_compute False and True, each call given as its
\* arguments (of the two tensors their shapes), its update_effect and the
\* examples of its batch
UpdateCalls ==
    [type \in Types |->
        {[args |-> <<b[1].shape, b[2].shape, batch_compute, b[3]>>,
          effect |-> update_effect(type, b[1], b[2], batch_compute, b[3]),
          examples |-> ExamplesOf(type, b[1], b[2], b[3])] :
            b \in Batches(type), batch_compute \in BOOLEAN}]

\* update(output, target, batch_compute, idx), for call in UpdateCalls[_type]
update(call) ==
    LET e == call.effect
    IN  /\ Len(log) < MaxCalls
        /\ _num_correct' = _num_correct + e.correct
        /\ _num_examples' = _num_examples + e.examples
        /\ ret' = IF e.raised = ""
                  THEN Returns("update", call.args, e.value)
                  ELSE Raises("update", call.args, e.raised)
        /\ log' = Append(log, LogUpdate(e))
        /\ expected' = call.examples
        /\ UNCHANGED <<_type, best_accuracy, external_best_acc, returned>>
        /\ UNCHANGED utilVars

get_best ==
    /\ ret' = Returns("get_best", <<>>, best_accuracy)
    /\ UNCHANGED accVars
    /\ UNCHANGED utilVars

compute_last ==
    /\ IF _num_examples = 0
       THEN /\ ret' = Raises("compute", <<>>, "Exception")
            /\ UNCHANGED <<best_accuracy, returned>>
       ELSE LET acc == PyFloat(_num_correct, _num_examples)
            IN  /\ best_accuracy' = acc
                /\ ret' = Returns("compute", <<>>, PyFloat(_num_correct, _num_examples))
                /\ returned' = returned \cup {PyFloat(_num_correct, _num_examples)}
    /\ UNCHANGED <<_type, _num_correct, _num_examples, external_best_acc, log, expected>>
    /\ UNCHANGED utilVars

compute_no_correct ==
    /\ IF _num_correct = 0
       THEN /\ ret' = Raises("compute", <<>>, "Exception")
            /\ UNCHANGED <<best_accuracy, returned>>
       ELSE LET acc == PyFloat(_num_correct, _num_examples)
            IN  /\ best_accuracy' = IF Less(best_accuracy, acc) THEN acc ELSE best_accuracy
                /\ ret' = Returns("compute", <<>>, PyFloat(_num_correct, _num_examples))
                /\ returned' = returned \cup {PyFloat(_num_correct, _num_examples)}
    /\ UNCHANGED <<_type, _num_correct, _num_examples, external_best_acc, log, expected>>
    /\ UNCHANGED utilVars

compute ==
    /\ IF _num_examples = 0
       THEN /\ ret' = Raises("compute", <<>>, "Exception")
            /\ UNCHANGED <<best_accuracy, returned>>
       ELSE LET acc == PyFloat(_num_correct, _num_examples)
            IN  /\ best_accuracy' = IF Less(best_accuracy, acc) THEN acc ELSE best_accuracy
                /\ ret' = Returns("compute", <<>>, PyFloat(_num_correct, _num_examples))
                /\ returned' = returned \cup {PyFloat(_num_correct, _num_examples)}
    /\ UNCHANGED <<_type, _num_correct, _num_examples, external_best_acc, log, expected>>
    /\ UNCHANGED utilVars

(***************************************************************************)
(* Calls of the pure helpers.  They keep no state, so a behaviour makes one *)
(* call, from the initial state: ret then holds its arguments and outcome.  *)
(***************************************************************************)
CallGetActFunction(descr) ==
    /\ ret = NoCall
    /\ ret' = get_act_function(descr)
    /\ UNCHANGED accVars
    /\ UNCHANGED utilVars

CallGetActFunctionModule(descr) ==
    /\ ret = NoCall
    /\ ret' = get_act_function_module(descr)
    /\ UNCHANGED accVars
    /\ UNCHANGED utilVars

\* device_count is what torch.cuda.device_count() answers on the machine
CallPrepareDevice(n_gpu_use, gpu_id, device_count) ==
    /\ ret = NoCall
    /\ ret' = prepare_device(n_gpu_use, gpu_id, device_count)
    /\ UNCHANGED accVars
    /\ UNCHANGED utilVars

CallDictToMd(dict_input, vis_size) ==
    /\ ret = NoCall
    /\ ret' = dict_to_md(dict_input, vis_size)
    /\ UNCHANGED accVars
    /\ UNCHANGED utilVars

(***************************************************************************)
(* Specifications                                                          *)
(***************************************************************************)
Init ==
    /\ _type \in Types
    /\ _num_correct = 0
    /\ _num_examples = 0
    /\ best_accuracy = PyFloat(-1, 1)
    /\ external_best_acc = PyFloat(-1, 1)
    /\ files = [p \in {} |-> PyNone]
    /\ saved = [p \in {} |-> PyNone]
    /\ ret = NoCall
    /\ log = <<>>
    /\ returned = {}
    /\ expected = NotCounted

\* the life of one Accuracy accumulator
Next ==
    \/ reset
    \/ \E call \in UpdateCalls[_type] : update(call)
    \/ compute
    \/ get_best

Spec == Init /\ [][Next]_vars

\* saves and loads on one file system
NextFiles ==
    \/ \E array \in Arrays, filename \in Filenames : save_to_npy_gz(array, filename)
    \/ \E filename \in Filenames : load_to_npy_gz(filename)

SpecFiles == Init /\ [][NextFiles]_vars

\* calls of the pure helpers
NextHelpers ==
    \/ \E descr \in Descrs : CallGetActFunction(descr)
    \/ \E descr \in Descrs : CallGetActFunctionModule(descr)
    \/ \E n_gpu_use \in -1..(MaxGpu + 1), gpu_id \in GpuIds, device_count \in 0..MaxGpu :
            CallPrepareDevice(n_gpu_use, gpu_id, device_count)
    \/ \E dict_input \in Dicts, vis_size \in VisSizes : CallDictToMd(dict_input, vis_size)

SpecHelpers == Init /\ [][NextHelpers]_vars

(***************************************************************************)
(* The history of an accumulator                                           *)
(***************************************************************************)
\* the position in l of the last reset(), 0 if there is none
LastReset(l) ==
    IF \E i \in DOMAIN l : l[i].call = "reset"
    THEN CHOOSE i \in DOMAIN l :
            l[i].call = "reset" /\ \A j \in DOMAIN l : l[j].call = "reset" => j <= i
    ELSE 0

\* the update() calls since the last reset(), or since construction
Since(l) == SubSeq(l, LastReset(l) + 1, Len(l))

RECURSIVE SumCorrect(_)
SumCorrect(l) == IF Len(l) = 0 THEN 0 ELSE l[1].correct + SumCorrect(Tail(l))

RECURSIVE SumExamples(_)
SumExamples(l) == IF Len(l) = 0 THEN 0 ELSE l[1].examples + SumExamples(Tail(l))

ComputeCalled == ret.op = "compute"
ComputeReturned == ret.op = "compute" /\ ret.raised = ""
ComputeRaised == ret.op = "compute" /\ ret.raised # ""

\* a step that is a call of compute() raising
ComputeRaises == ret'.op = "compute" /\ ret'.raised # ""

(***************************************************************************)
(* C1                                                                      *)
(***************************************************************************)
\* C1 as stated: compute() raises exactly when no example was accumulated
\* since construction or the last reset(); it never raises once an update()
\* has returned since then; a raising compute() changes no field.
C1_Original ==
    /\ [](ComputeCalled =>
            /\ (ret.raised # "") <=> (SumExamples(Since(log)) = 0)
            /\ (\E i \in DOMAIN Since(log) : Since(log)[i].raised = "") => ret.raised = "")
    /\ [][ComputeRaises => UNCHANGED <<_num_correct, _num_examples, best_accuracy>>]_vars

\* C1 amended: compute() raises exactly when the update() calls since
\* construction or the last reset() have added no example: it raises on a fresh
\* accumulator and right after reset(), it may raise after update() calls that
\* added none (empty batches), and it never raises once an update() since the
\* last reset() has added an example; a raising compute() changes no field.
C1_Amended ==
    /\ [](ComputeCalled =>
            /\ (ret.raised # "") <=> (SumExamples(Since(log)) = 0)
            /\ Since(log) = <<>> => ret.raised = "Exception"
            /\ (\E i \in DOMAIN Since(log) : Since(log)[i].examples > 0) => ret.raised = "")
    /\ [][ComputeRaises => UNCHANGED <<_num_correct, _num_examples, best_accuracy>>]_vars

\* compute() raised although an update() of an empty batch had returned since
\* the last reset()
C1_Witness ==
    /\ ComputeRaised
    /\ LastReset(log) > 0
    /\ \E i \in DOMAIN Since(log) : Since(log)[i].raised = ""

(***************************************************************************)
(* C2                                                                      *)
(***************************************************************************)
\* C2: a compute() that returns, returns the sum of the correct predictions
\* over the sum of the examples of the update() calls since the last reset()
\* (since construction if there was none); compute() changes neither counter,
\* and called twice in a row it returns the same value.
C2_SinceLastReset ==
    /\ [](ComputeReturned =>
            /\ SumExamples(Since(log)) > 0
            /\ ret.value.n * SumExamples(Since(log)) = SumCorrect(Since(log)) * ret.value.d)
    /\ [][ret'.op = "compute" => UNCHANGED <<_num_correct, _num_examples>>]_vars
    /\ [][ComputeReturned /\ ret'.op = "compute" => ret' = ret]_vars

\* compute() returned after a reset() that followed an update() which had
\* counted correct examples
C2_Witness ==
    /\ ComputeReturned
    /\ LastReset(log) > 1
    /\ SumCorrect(SubSeq(log, 1, LastReset(log))) > 0
    /\ SumExamples(Since(log)) > 0

(***************************************************************************)
(* C3                                                                      *)
(***************************************************************************)
\* C3: best_accuracy is -1 until compute() returns, then the maximum of the
\* values compute() has returned; it never decreases; only a compute() that
\* returns changes it; get_best() returns it.
C3_RunningMax ==
    /\ [](/\ returned = {} => best_accuracy = PyFloat(-1, 1)
          /\ returned # {} =>
                /\ best_accuracy \in returned
                /\ \A v \in returned : ~Less(best_accuracy, v)
          /\ ret.op = "get_best" => ret.value = best_accuracy)
    /\ [][~Less(best_accuracy', best_accuracy)]_vars
    /\ [][best_accuracy' # best_accuracy => ret'.op = "compute" /\ ret'.raised = ""]_vars

\* compute() returned, in a later epoch, less than the best so far
C3_Witness ==
    /\ ComputeReturned
    /\ LastReset(log) > 0
    /\ Less(ret.value, best_accuracy)

(***************************************************************************)
(* C4                                                                      *)
(***************************************************************************)
\* the activation a returned function or module computes
Activation(value) ==
    CASE value.name \in {"F.relu", "nn.ReLU"} -> "relu"
      [] value.name \in {"F.sigmoid", "nn.Sigmoid"} -> "sigmoid"
      [] value.name \in {"F.tanh", "nn.Tanh"} -> "tanh"
      [] value.name \in {"F.leaky_relu", "nn.LeakyReLU"} -> "leaky-relu"

\* the activation each key denotes
KeyActivation(key) ==
    CASE key = "relu" -> "relu" [] key = "sigm" -> "sigmoid"
      [] key = "tanh" -> "tanh" [] key = "leaky" -> "leaky-relu"

IsKey(descr) == descr.kind = "str" /\ descr.s \in {"relu", "sigm", "tanh", "leaky"}

\* C4: both lookups accept exactly "relu", "sigm", "tanh" and "leaky", return
\* the activation the key denotes, and agree; for any other descriptor both
\* raise NotImplementedError and return nothing.
C4_Dispatch ==
    ret.op \in {"get_act_function", "get_act_function_module"} =>
        LET descr == ret.args[1]
            other == IF ret.op = "get_act_function"
                     THEN get_act_function_module(descr)
                     ELSE get_act_function(descr)
        IN  /\ IsKey(descr) =>
                /\ ret.raised = "" /\ other.raised = ""
                /\ Activation(ret.value) = KeyActivation(descr.s)
                /\ Activation(other.value) = Activation(ret.value)
                /\ (ret.op = "get_act_function") =
                        (ret.value.name \in {"F.relu", "F.sigmoid", "F.tanh", "F.leaky_relu"})
            /\ ~IsKey(descr) =>
                /\ ret.raised = "NotImplementedError" /\ ret.value = PyNone
                /\ other.raised = "NotImplementedError"

\* get_act_function("sigm") returned the sigmoid
C4_Witness ==
    /\ ret.op = "get_act_function"
    /\ IsStr(ret.args[1], "sigm")
    /\ ret.raised = ""
    /\ Activation(ret.value) = "sigmoid"

(***************************************************************************)
(* C5                                                                      *)
(***************************************************************************)
\* C5: prepare_device returns the CPU device whenever min(n_gpu_use, n_gpu)
\* <= 0, and the CUDA device with index gpu_id whenever n_gpu_use > 0 and
\* n_gpu > 0.
C5_Clamp ==
    ret.op = "prepare_device" =>
        LET n_gpu_use == ret.args[1]
            gpu_id == ret.args[2]
            n_gpu == ret.args[3]
        IN  /\ (n_gpu_use <= 0 \/ n_gpu <= 0) =>
                ret.raised = "" /\ ret.value = [type |-> "cpu"]
            /\ (n_gpu_use > 0 /\ n_gpu > 0) =>
                /\ ret.raised = ""
                /\ ret.value.type = "cuda"
                /\ PyInt(ret.value.index) = gpu_id

(***************************************************************************)
(* C6                                                                      *)
(***************************************************************************)
\* a step that is a call save_to_npy_gz(array, filename)
SaveStep == ret'.op = "save_to_npy_gz"

\* C6: save_to_npy_gz(a, f) writes only the file f + ".npy.gz"; a load of f
\* returns the array of the last save under f, whatever was saved under
\* other filenames; a load changes no file.
C6_RoundTrip ==
    /\ [](ret.op = "load_to_npy_gz" /\ ret.args[1] \in DOMAIN saved =>
            ret.raised = "" /\ ret.value = saved[ret.args[1]])
    /\ [][SaveStep =>
            /\ DOMAIN files' = DOMAIN files \cup {ret'.args[2] \o ".npy.gz"}
            /\ \A p \in DOMAIN files : p # ret'.args[2] \o ".npy.gz" => files'[p] = files[p]]_vars
    /\ [][ret'.op = "load_to_npy_gz" => files' = files]_vars

(***************************************************************************)
(* C7                                                                      *)
(***************************************************************************)
RECURSIVE Split(_, _)
\* text.split(ch)
Split(text, ch) ==
    IF \A i \in DOMAIN text : text[i] # ch THEN <<text>>
    ELSE LET i == CHOOSE i \in DOMAIN text :
                    text[i] = ch /\ \A j \in 1..(i - 1) : text[j] # ch
         IN  <<SubSeq(text, 1, i - 1)>> \o Split(SubSeq(text, i + 1, Len(text)), ch)

\* the cells of one line of a markdown table: what lies between its pipes
Cells(line) == LET parts == Split(line, "|") IN SubSeq(parts, 2, Len(parts) - 1)

\* ceil(n / ChunkSize)
NumTables(n) == (n + ChunkSize - 1) \div ChunkSize

\* C7: the entries of d are cut, in insertion order, into chunks of 10 keys;
\* one table per chunk, ceil(n/10) tables; in each table the header, the
\* separator and the value row have as many columns as the chunk has keys,
\* the header naming the keys and the row holding each key's value under its
\* key; vis_size does not change the result.
C7_Tables ==
    ret.op = "dict_to_md" =>
        LET d == ret.args[1]
            n == Len(d)
            tables == ret.value
        IN  /\ Len(tables) = NumTables(n)
            /\ \A j \in 1..Len(tables) :
                LET first == (j - 1) * ChunkSize + 1
                    last == IF j * ChunkSize < n THEN j * ChunkSize ELSE n
                    lines == Split(tables[j], "\n")
                IN  /\ Len(lines) = 4 /\ lines[4] = <<>>
                    /\ Len(Cells(lines[1])) = last - first + 1
                    /\ Len(Cells(lines[2])) = last - first + 1
                    /\ Len(Cells(lines[3])) = last - first + 1
                    /\ \A i \in 1..(last - first + 1) :
                        /\ Cells(lines[1])[i] = <<" ">> \o Str(d[first + i - 1][1]) \o <<" ">>
                        /\ Cells(lines[3])[i] = <<" ">> \o Str(d[first + i - 1][2]) \o <<" ">>
            /\ \A vis_size \in VisSizes : dict_to_md(d, vis_size).value = tables

(***************************************************************************)
(* C8                                                                      *)
(***************************************************************************)
UpdateReturned == ret.op = "update" /\ ret.raised = ""

\* C8: an update() that returns adds the number of examples of its batch to
\* _num_examples and the number of correct ones to _num_correct, the examples
\* being the elements (binary), the rows (multiclass), the (sample, position)
\* pairs (multilabel) or the rows picked by idx (semisupervised).
C8_PerMode ==
    UpdateReturned /\ expected.counted =>
        /\ log[Len(log)].examples = expected.examples
        /\ log[Len(log)].correct = expected.correct
        /\ _num_examples = SumExamples(Since(SubSeq(log, 1, Len(log) - 1))) + expected.examples
        /\ _num_correct = SumCorrect(Since(SubSeq(log, 1, Len(log) - 1))) + expected.correct

(***************************************************************************)
(* C9                                                                      *)
(***************************************************************************)
InUnit(v) == 0 <= v.n /\ v.n <= v.d

\* C9: always 0 <= _num_correct <= _num_examples; every value compute()
\* returns lies in [0, 1]; best_accuracy is -1 or lies in [0, 1].
C9_Range ==
    /\ 0 <= _num_correct /\ _num_correct <= _num_examples
    /\ ComputeReturned => InUnit(ret.value)
    /\ best_accuracy = PyFloat(-1, 1) \/ InUnit(best_accuracy)

(***************************************************************************)
(* C10                                                                     *)
(***************************************************************************)
\* C10: an update() that raises, whatever the type and batch_compute, leaves
\* _num_correct, _num_examples and best_accuracy as they were; an
\* update(..., batch_compute=True) that returns, returns the batch's
\* correct/size fraction.
C10_NoPartialEffect ==
    /\ [][ret'.op = "update" /\ ret'.raised # "" =>
            UNCHANGED <<_num_correct, _num_examples, best_accuracy>>]_vars
    /\ [](UpdateReturned /\ ret.args[3] =>
            /\ log[Len(log)].examples > 0
            /\ ret.value.n * log[Len(log)].examples = log[Len(log)].correct * ret.value.d)

====
